---- MODULE Spec2Model ----
(***************************************************************************)
(* Cargills press monitoring (app.py): the ingestion pipeline             *)
(* run_scan_and_save, the paginated search google_search, the daily job   *)
(* and the manual trigger, over a transactional store whose url column    *)
(* carries a unique index.                                                 *)
(*                                                                         *)
(* Time is counted in hours.  The store is the set of committed rows of   *)
(* press_articles.  Every thread that can run a scan is a process: the    *)
(* scheduler thread ("daily") and a request thread ("manual").            *)
(***************************************************************************)
EXTENDS Integers, Sequences, FiniteSets, TLC

\* ------------------------------------------------------------------ bounds
\* google_search is followed while start <= MaxStart (the loop has no cap).
MaxStart == 101
\* Rows are inserted while the id sequence is <= MaxId.
MaxId == 2
\* The clock is advanced while it stays <= MaxTime.
MaxTime == 40
\* The clock of SpecSchedule advances in steps of ScheduleHours.
ScheduleHours == 8
\* send_email is called directly while the log of calls is shorter than MaxCalls.
MaxCalls == 2

\* -------------------------------------------------------- program constants
\* len(data["items"]) < 10 and start += 10
PageSize == 10
\* timedelta(days=1), in hours
Day == 24
\* The clock advances in steps of TickHours.
TickHours == 12

\* --------------------------------------------------------- configuration
NEWS_MAP ==
  << <<"dailymirror.lk", "Daily Mirror">>,
     <<"ft.lk", "Daily FT">>,
     <<"sundayobserver.lk", "Sunday Observer">>,
     <<"sundaytimes.lk", "Sunday Times">>,
     <<"ceylontoday.lk", "Ceylon Today">>,
     <<"themorning.lk", "The Morning">>,
     <<"dailynews.lk", "Daily News">>,
     <<"island.lk", "The Island">>,
     <<"lankadeepa.lk", "Lanka Deepa">>,
     <<"mawbima.lk", "Maubima">>,
     <<"ada.lk", "Ada">>,
     <<"aruna.lk", "Aruna">>,
     <<"divaina.lk", "Divaina">>,
     <<"dinamina.lk", "Dinamina">> >>

ENGLISH_QUERIES == <<"cargills", "cargils">>

SINHALA_QUERIES == <<"si:kagils", "si:kagiils">>

SINHALA_DOMAINS ==
  <<"lankadeepa.lk", "mawbima.lk", "ada.lk", "aruna.lk", "divaina.lk", "dinamina.lk">>

Range(s) == {s[i] : i \in 1..Len(s)}

NewsKeys == [i \in 1..Len(NEWS_MAP) |-> NEWS_MAP[i][1]]

\* queries = SINHALA_QUERIES if domain in SINHALA_DOMAINS else ENGLISH_QUERIES
QueriesFor(domain) ==
  IF domain \in Range(SINHALA_DOMAINS) THEN SINHALA_QUERIES ELSE ENGLISH_QUERIES

\* The (domain, query) pairs in the order of the two nested loops, for the
\* keys of NEWS_MAP that the deployment monitors.
RECURSIVE SweepFrom(_, _)
SweepFrom(i, doms) ==
  IF i > Len(NewsKeys) THEN << >>
  ELSE (IF NewsKeys[i] \in doms
        THEN [k \in 1..Len(QueriesFor(NewsKeys[i])) |->
                [domain |-> NewsKeys[i], query |-> QueriesFor(NewsKeys[i])[k]]]
        ELSE << >>)
       \o SweepFrom(i + 1, doms)

\* ------------------------------------------------------------- processes
Daily == "daily"

Manuals == {"manual"}

Procs == {Daily} \cup Manuals

SendEmailImmediateAlways(p) == TRUE

SendEmailImmediateNever(p) == FALSE

\* run_scan_and_save(send_email_immediate=...) of each caller
SendEmailImmediate(p) == p \in Manuals

\* ------------------------------------------------------ upstream responses
U1 == "https://www.ft.lk/a"

U2 == "https://www.lankadeepa.lk/b"

U3 == "https://www.ft.lk/c"

\* item.get("link", "") of an item without link
NoLink == ""

\* Shapes of item["pagemap"]: no pagemap, pagemap without metatags, an empty
\* metatags list, a first metatag without article:published_time, and a
\* first metatag that carries it.
Metas == {"nopagemap", "nometatags", "emptymetatags", "notime", "time"}

MkItem(l, m, t) == [link |-> l, meta |-> m, title |-> t]

\* requests.get or r.json() raises
Raise == [kind |-> "raise", items |-> << >>]

\* a body without an "items" key
NoItems == [kind |-> "noitems", items |-> << >>]

\* a body whose "items" is the given list
Page(items) == [kind |-> "page", items |-> items]

FullPage(item) == Page([i \in 1..PageSize |-> item])

\* The column default of an unset attribute.
None == -1

VARIABLES
  store,        \* committed rows of press_articles
  nextId,       \* the id sequence of the table
  clock,        \* datetime.utcnow(), in hours
  monitored,    \* the keys of NEWS_MAP the deployment monitors
  upstream,     \* the search API: pair index -> feed (the fixed-upstream specifications)
  pc,           \* per process: its position
  pair,         \* per process: index into Sweep of the (domain, query) being searched
  start,        \* per process: google_search's start
  results,      \* per process: google_search's results / the items of the pair
  calls,        \* per process: the start offsets requested by the current google_search
  pos,          \* per process: index of the item being processed
  new_articles, \* per process: the list new_articles
  failed,       \* per process: the except branch of the current scan ran
  cause,        \* per process: what raised
  ret,          \* per process: what run_scan_and_save returned
  reported,     \* per process: len(new_articles) flashed by run_scan
  recent,       \* per process: recent_articles of daily_job
  mailed,       \* per process: the send_email calls of the current run, in order
  again,        \* per process: an earlier run of this handler has returned
  creds,        \* which of EMAIL_USER and EMAIL_PASS the environment sets
  smtp,         \* the mail transport: "up" or "down"
  due,          \* the next fire time of the cron trigger
  seen,         \* ids of the rows a window query of the daily job has returned
  probe         \* a url handed to get_newspaper_name / get_language, and the answers

vars == <<store, nextId, clock, monitored, upstream, pc, pair, start, results, calls,
          pos, new_articles, failed, cause, ret, reported, recent, mailed, again,
          creds, smtp, due, seen, probe>>

\* for domain in NEWS_MAP.keys(): for query in queries
Sweep == SweepFrom(1, monitored)

NPairs == Len(Sweep)

\* ------------------------------------------------------------ the search API
\* A feed is what the API answers for one (query, site): the pages for
\* start = 1, 11, 21, ... and the answer to every later request.
MkFeed(pages, tail) == [pages |-> pages, tail |-> tail]

\* The answer to the request with the given start offset.
RespondAt(feed, st) ==
  LET k == ((st - 1) \div PageSize) + 1
  IN  IF k <= Len(feed.pages) THEN feed.pages[k] ELSE feed.tail

ItemA == MkItem(U1, "time", 1)

ItemB == MkItem(U2, "nopagemap", 2)

ItemC == MkItem(NoLink, "time", 3)

ItemD == MkItem(U2, "emptymetatags", 4)

ItemE == MkItem(U1, "nometatags", 5)

ItemF == MkItem(U2, "notime", 6)

\* ------------------------------------------------------------------ records
\* ------------------------------------------------------------ classification
\* A string whose characters matter is the sequence of its characters.
Spelled ==
       ("dailymirror.lk" :> <<"d", "a", "i", "l", "y", "m", "i", "r", "r", "o", "r", ".", "l", "k">>)
    @@ ("ft.lk" :> <<"f", "t", ".", "l", "k">>)
    @@ ("sundayobserver.lk" :> <<"s", "u", "n", "d", "a", "y", "o", "b", "s", "e", "r", "v", "e", "r", ".", "l", "k">>)
    @@ ("sundaytimes.lk" :> <<"s", "u", "n", "d", "a", "y", "t", "i", "m", "e", "s", ".", "l", "k">>)
    @@ ("ceylontoday.lk" :> <<"c", "e", "y", "l", "o", "n", "t", "o", "d", "a", "y", ".", "l", "k">>)
    @@ ("themorning.lk" :> <<"t", "h", "e", "m", "o", "r", "n", "i", "n", "g", ".", "l", "k">>)
    @@ ("dailynews.lk" :> <<"d", "a", "i", "l", "y", "n", "e", "w", "s", ".", "l", "k">>)
    @@ ("island.lk" :> <<"i", "s", "l", "a", "n", "d", ".", "l", "k">>)
    @@ ("lankadeepa.lk" :> <<"l", "a", "n", "k", "a", "d", "e", "e", "p", "a", ".", "l", "k">>)
    @@ ("mawbima.lk" :> <<"m", "a", "w", "b", "i", "m", "a", ".", "l", "k">>)
    @@ ("ada.lk" :> <<"a", "d", "a", ".", "l", "k">>)
    @@ ("aruna.lk" :> <<"a", "r", "u", "n", "a", ".", "l", "k">>)
    @@ ("divaina.lk" :> <<"d", "i", "v", "a", "i", "n", "a", ".", "l", "k">>)
    @@ ("dinamina.lk" :> <<"d", "i", "n", "a", "m", "i", "n", "a", ".", "l", "k">>)

Www == <<"w", "w", "w", ".">>

\* t occupies s[i .. i + Len(t) - 1].
OccursAt(t, s, i) ==
  /\ i + Len(t) - 1 <= Len(s)
  /\ \A j \in 1..Len(t) : s[i + j - 1] = t[j]

\* t in s
In(t, s) == \E i \in 1..(Len(s) - Len(t) + 1) : OccursAt(t, s, i)

\* s.replace(old, ""): every occurrence of old is removed, leftmost first.
RECURSIVE RemoveAll(_, _)
RemoveAll(old, s) ==
  IF s = << >> THEN << >>
  ELSE IF OccursAt(old, s, 1) THEN RemoveAll(old, SubSeq(s, Len(old) + 1, Len(s)))
  ELSE <<Head(s)>> \o RemoveAll(old, Tail(s))

DomainOfLeadingOnly(netloc) ==
  IF OccursAt(Www, netloc, 1) THEN SubSeq(netloc, Len(Www) + 1, Len(netloc)) ELSE netloc

\* domain = urlparse(url).netloc.replace("www.", "")
DomainOf(netloc) == RemoveAll(Www, netloc)

\* for key, name in NEWS_MAP.items(): if key in domain: return name
get_newspaper_name(netloc) ==
  LET hits == {i \in 1..Len(NEWS_MAP) : In(Spelled[NEWS_MAP[i][1]], DomainOf(netloc))}
  IN  IF hits = {} THEN "Unknown"
      ELSE NEWS_MAP[CHOOSE i \in hits : \A j \in hits : i <= j][2]

\* for d in SINHALA_DOMAINS: if d in domain: return "Sinhala"
get_language(netloc) ==
  IF \E i \in 1..Len(SINHALA_DOMAINS) : In(Spelled[SINHALA_DOMAINS[i]], DomainOf(netloc))
  THEN "Sinhala" ELSE "English"

\* urlparse(url).netloc of the urls the upstream offers.
Netloc(url) ==
  IF url = U2 THEN Www \o Spelled["lankadeepa.lk"] ELSE Www \o Spelled["ft.lk"]

PublishedTime == "2024-12-01T10:00:00+05:30"

\* item.get("pagemap", {}).get("metatags", [{}])[0] raises IndexError on an
\* empty metatags list.
PublishDateRaises(item) == item.meta = "emptymetatags"

\* .get("article:published_time", "Unknown")
PublishDate(item) == IF item.meta = "time" THEN PublishedTime ELSE "Unknown"

\* PressArticle(...): id and created_at are set by the INSERT.  The title
\* and the snippet of an item are one token.
MkArticle(item, query) ==
  [id |-> None, newspaper |-> get_newspaper_name(Netloc(item.link)),
   language |-> get_language(Netloc(item.link)), title |-> item.title,
   url |-> item.link, snippet |-> item.title, query_used |-> query,
   publish_date |-> PublishDate(item), created_at |-> None]

Urls(rows) == {r.url : r \in rows}

\* ------------------------------------------------------- session and store
InTxn(p) == pc[p] \in {"search", "items", "commit"}

\* Rows a session has INSERTed and not yet committed.
Uncommitted(p) ==
  IF InTxn(p) THEN {a \in Range(new_articles[p]) : a.id # None} ELSE {}

\* Objects added to the session and not yet flushed.
Unflushed(p) == {i \in 1..Len(new_articles[p]) : new_articles[p][i].id = None}

\* The INSERT waits for another open transaction that holds the same url.
Blocked(p) ==
  \E i \in Unflushed(p) : \E q \in Procs \ {p} :
    new_articles[p][i].url \in Urls(Uncommitted(q))

UniqueViolationNoIndex(p) == FALSE

\* The unique index on url rejects the INSERT (IntegrityError).
UniqueViolation(p) ==
  \E i \in Unflushed(p) : new_articles[p][i].url \in Urls(store)

\* The flush: every pending object gets the next id and created_at = utcnow().
RECURSIVE FlushFrom(_, _, _)
FlushFrom(na, i, id) ==
  IF i > Len(na) THEN na
  ELSE IF na[i].id = None
       THEN FlushFrom([na EXCEPT ![i] = [@ EXCEPT !.id = id, !.created_at = clock]],
                      i + 1, id + 1)
       ELSE FlushFrom(na, i + 1, id)

Flushed(p) == FlushFrom(new_articles[p], 1, nextId)

CanFlush(p) ==
  /\ ~Blocked(p)
  /\ Unflushed(p) # {} => nextId + Cardinality(Unflushed(p)) - 1 <= MaxId

ExistingCommittedOnly(url, na) == url \in Urls(store)

\* session.query(PressArticle).filter_by(url=url).first(), after the autoflush
Existing(url, na) == url \in Urls(store) \cup Urls(Range(na))

\* session.commit() makes the rows of the transaction visible.
Committed(na) == store \cup Range(na)

\* ------------------------------------------------------------ run_scan_and_save
AfterScan(p) == IF p = Daily THEN "window" ELSE "flash"

\* The loops of the scan are left: their variables are dead.
LeaveLoops(p) ==
  /\ pair' = [pair EXCEPT ![p] = 1]
  /\ start' = [start EXCEPT ![p] = 1]
  /\ results' = [results EXCEPT ![p] = << >>]
  /\ calls' = [calls EXCEPT ![p] = << >>]
  /\ pos' = [pos EXCEPT ![p] = 1]

\* session = SessionLocal(); new_articles = []; the first google_search starts
StartScan(p) ==
  /\ pc[p] = "idle"
  /\ pc' = [pc EXCEPT ![p] = "search"]
  /\ UNCHANGED <<store, nextId, clock, monitored, upstream, pair, start, results, calls,
                 pos, new_articles, failed, cause, ret, reported, recent, mailed, again,
                 creds, smtp, due, seen, probe>>

\* What run_scan_and_save returns after the except branch.
Returned(na) == na

RolledBackDeletesBatchUrls(na) == {r \in store : r.url \notin Urls(Range(na))}

RolledBackKeepsFlushed(na) == store \cup {a \in Range(na) : a.id # None}

\* session.rollback(): the store after the transaction is discarded.
RolledBack(na) == store

\* except Exception: session.rollback(); finally: session.close();
\* return new_articles
ScanRaises(p, why, na) ==
  /\ pc' = [pc EXCEPT ![p] = AfterScan(p)]
  /\ new_articles' = [new_articles EXCEPT ![p] = na]
  /\ failed' = [failed EXCEPT ![p] = TRUE]
  /\ cause' = [cause EXCEPT ![p] = why]
  /\ ret' = [ret EXCEPT ![p] = Returned(na)]
  /\ LeaveLoops(p)
  /\ store' = RolledBack(na)

LastPageAtMost(items) == Len(items) <= PageSize

\* if len(data["items"]) < 10: break
LastPage(items) == Len(items) < PageSize

\* One iteration of google_search's while loop, the API answering resp.
Request(p, resp) ==
  /\ pc[p] = "search"
  /\ start[p] <= MaxStart
  /\ IF resp = Raise
     THEN ScanRaises(p, "upstream", new_articles[p])
     ELSE /\ calls' = [calls EXCEPT ![p] = Append(@, start[p])]
          /\ IF resp = NoItems
             THEN /\ pc' = [pc EXCEPT ![p] = "items"]
                  /\ UNCHANGED <<start, results>>
             ELSE /\ results' = [results EXCEPT ![p] = @ \o resp.items]
                  /\ IF LastPage(resp.items)
                     THEN /\ pc' = [pc EXCEPT ![p] = "items"]
                          /\ UNCHANGED start
                     ELSE /\ start' = [start EXCEPT ![p] = @ + PageSize]
                          /\ UNCHANGED pc
          /\ UNCHANGED <<store, pair, pos, new_articles, failed, cause, ret>>
  /\ UNCHANGED <<nextId, clock, monitored, upstream, reported, recent, mailed, again,
                 creds, smtp, due, seen, probe>>

\* The for loop over items is exhausted: the next query or domain, or the
\* end of the sweep.
ItemsDone(p) ==
  /\ pc[p] = "items"
  /\ pos[p] > Len(results[p])
  /\ IF pair[p] < NPairs
     THEN /\ pc' = [pc EXCEPT ![p] = "search"]
          /\ pair' = [pair EXCEPT ![p] = @ + 1]
     ELSE /\ pc' = [pc EXCEPT ![p] = "commit"]
          /\ pair' = [pair EXCEPT ![p] = 1]
  /\ start' = [start EXCEPT ![p] = 1]
  /\ results' = [results EXCEPT ![p] = << >>]
  /\ calls' = [calls EXCEPT ![p] = << >>]
  /\ pos' = [pos EXCEPT ![p] = 1]
  /\ UNCHANGED <<store, nextId, clock, monitored, upstream, new_articles, failed, cause,
                 ret, reported, recent, mailed, again,
                 creds, smtp, due, seen, probe>>

\* url = item.get("link", ""); if not url: continue
SkipNoLink(p) ==
  /\ pc[p] = "items"
  /\ pos[p] <= Len(results[p])
  /\ results[p][pos[p]].link = NoLink
  /\ pos' = [pos EXCEPT ![p] = @ + 1]
  /\ UNCHANGED <<store, nextId, clock, monitored, upstream, pc, pair, start, results,
                 calls, new_articles, failed, cause, ret, reported, recent, mailed, again,
                 creds, smtp, due, seen, probe>>

\* The rest of the loop body for an item with a link: the lookup (with its
\* autoflush), the publish date, session.add and new_articles.append.
ProcessItem(p) ==
  /\ pc[p] = "items"
  /\ pos[p] <= Len(results[p])
  /\ results[p][pos[p]].link # NoLink
  /\ CanFlush(p)
  /\ LET item == results[p][pos[p]]
         na == Flushed(p)
         nid == nextId + Cardinality(Unflushed(p))
     IN  IF UniqueViolation(p)
         THEN /\ ScanRaises(p, "integrity", new_articles[p])
              /\ UNCHANGED nextId
         ELSE /\ nextId' = nid
              /\ IF Existing(item.link, na)
                 THEN /\ new_articles' = [new_articles EXCEPT ![p] = na]
                      /\ pos' = [pos EXCEPT ![p] = @ + 1]
                      /\ UNCHANGED <<store, pc, pair, start, results, calls, failed,
                                     cause, ret>>
                 ELSE IF PublishDateRaises(item)
                 THEN ScanRaises(p, "item", na)
                 ELSE /\ new_articles' = [new_articles EXCEPT ![p] =
                             Append(na, MkArticle(item, Sweep[pair[p]].query))]
                      /\ pos' = [pos EXCEPT ![p] = @ + 1]
                      /\ UNCHANGED <<store, pc, pair, start, results, calls, failed,
                                     cause, ret>>
  /\ UNCHANGED <<clock, monitored, upstream, reported, recent, mailed, again,
                 creds, smtp, due, seen, probe>>

\* session.commit(): the last flush, then every row of the transaction
\* becomes visible at once.
Commit(p) ==
  /\ pc[p] = "commit"
  /\ CanFlush(p)
  /\ IF UniqueViolation(p)
     THEN /\ ScanRaises(p, "integrity", new_articles[p])
          /\ UNCHANGED nextId
     ELSE LET na == Flushed(p)
          IN  /\ nextId' = nextId + Cardinality(Unflushed(p))
              /\ new_articles' = [new_articles EXCEPT ![p] = na]
              /\ store' = Committed(na)
              /\ IF SendEmailImmediate(p) /\ na # << >>
                 THEN /\ pc' = [pc EXCEPT ![p] = "mail"]
                      /\ UNCHANGED ret
                 ELSE /\ pc' = [pc EXCEPT ![p] = AfterScan(p)]
                      /\ ret' = [ret EXCEPT ![p] = na]
              /\ UNCHANGED <<pair, start, results, calls, pos, failed, cause>>
  /\ UNCHANGED <<clock, monitored, upstream, reported, recent, mailed, again,
                 creds, smtp, due, seen, probe>>

\* A statement of the session fails (connectivity loss, lock timeout).
DbFail(p) ==
  /\ \/ pc[p] = "commit"
     \/ /\ pc[p] = "items"
        /\ pos[p] <= Len(results[p])
        /\ results[p][pos[p]].link # NoLink
  /\ ScanRaises(p, "db", new_articles[p])
  /\ UNCHANGED <<nextId, clock, monitored, upstream, reported, recent, mailed, again,
                 creds, smtp, due, seen, probe>>

\* ------------------------------------------------------------------ send_email
\* EMAIL_USER and EMAIL_PASS are both set.
Configured == [user |-> TRUE, pass |-> TRUE]

DeliveryChecksUserOnly(articles) ==
  IF ~creds.user THEN "no_credentials"
  ELSE IF articles = << >> THEN "no_articles"
  ELSE IF smtp = "up" THEN "sent" ELSE "error"

\* What a call of send_email comes to: it returns early without credentials
\* or without articles, and otherwise opens the SMTP connection, which
\* delivers the message or raises.
Delivery(articles) ==
  IF ~creds.user \/ ~creds.pass THEN "no_credentials"
  ELSE IF articles = << >> THEN "no_articles"
  ELSE IF smtp = "up" THEN "sent" ELSE "error"

\* The deliveries that open a connection to the mail transport.
Network == {"sent", "error"}

\* send_email(articles, subject), as the log of calls keeps it.
SendEmail(articles, subject) ==
  [subject |-> subject, articles |-> articles, delivery |-> Delivery(articles)]

PropagatesTransportError(delivery) == delivery = "error"

\* except Exception as e: print("Error sending email:", e): nothing that the
\* transport raises leaves send_email.
Propagates(delivery) == FALSE

\* send_email(new_articles, subject="... Manual Trigger"), then return; an
\* exception out of send_email would land in the except branch of the scan.
MailImmediate(p) ==
  /\ pc[p] = "mail"
  /\ LET call == SendEmail(new_articles[p], "Manual Trigger")
     IN  /\ mailed' = [mailed EXCEPT ![p] = Append(@, call)]
         /\ failed' = [failed EXCEPT ![p] = Propagates(call.delivery)]
         /\ cause' = [cause EXCEPT ![p] =
                        IF Propagates(call.delivery) THEN "mail" ELSE @]
         /\ ret' = [ret EXCEPT ![p] =
                      IF Propagates(call.delivery) THEN Returned(new_articles[p])
                      ELSE new_articles[p]]
  /\ pc' = [pc EXCEPT ![p] = AfterScan(p)]
  /\ UNCHANGED <<store, nextId, clock, monitored, upstream, pair, start, results, calls,
                 pos, new_articles, reported, recent, again,
                 creds, smtp, due, seen, probe>>

\* run_scan: flash(f"Scan completed. {len(new_articles)} new articles found.")
Flash(p) ==
  /\ pc[p] = "flash"
  /\ reported' = [reported EXCEPT ![p] = Len(ret[p])]
  /\ pc' = [pc EXCEPT ![p] = "done"]
  /\ UNCHANGED <<store, nextId, clock, monitored, upstream, pair, start, results, calls,
                 pos, new_articles, failed, cause, ret, recent, mailed, again,
                 creds, smtp, due, seen, probe>>

\* ------------------------------------------------------------------ daily_job
InWindowExclusive(r, now) == r.created_at > now - Day /\ r.created_at <= now

\* filter(created_at >= since_utc, created_at <= now_utc)
InWindow(r, now) == r.created_at >= now - Day /\ r.created_at <= now

\* order_by(created_at.desc()): rows of equal created_at come in any order.
OrderedDesc(s) == \A i, j \in 1..Len(s) : i < j => s[i].created_at >= s[j].created_at

Listings(rows) ==
  {s \in [1..Cardinality(rows) -> rows] :
     /\ \A i, j \in 1..Cardinality(rows) : i # j => s[i] # s[j]
     /\ OrderedDesc(s)}

WindowQuery(now) == Listings({r \in store : InWindow(r, now)})

WindowStep(track) ==
  /\ pc[Daily] = "window"
  /\ \E s \in WindowQuery(clock) :
       /\ recent' = [recent EXCEPT ![Daily] = s]
       /\ seen' = IF track THEN seen \cup {s[i].id : i \in 1..Len(s)} ELSE seen
  /\ pc' = [pc EXCEPT ![Daily] = "notify"]
  /\ UNCHANGED <<store, nextId, clock, monitored, upstream, pair, start, results, calls,
                 pos, new_articles, failed, cause, ret, reported, mailed, again,
                 creds, smtp, due, probe>>

\* recent_articles = session.query(...).filter(...).order_by(...).all()
DailyWindow == WindowStep(FALSE)

\* if recent_articles: send_email(recent_articles, subject="... Daily Report ...");
\* daily_job has no except branch: an exception out of send_email would
\* reach the scheduler.
DailyNotify ==
  /\ pc[Daily] = "notify"
  /\ IF recent[Daily] # << >>
     THEN LET call == SendEmail(recent[Daily], "Daily Report (Last 24 hours)")
          IN  /\ mailed' = [mailed EXCEPT ![Daily] = Append(@, call)]
              /\ failed' = [failed EXCEPT ![Daily] = @ \/ Propagates(call.delivery)]
              /\ cause' = [cause EXCEPT ![Daily] =
                             IF Propagates(call.delivery) THEN "mail" ELSE @]
     ELSE UNCHANGED <<mailed, failed, cause>>
  /\ pc' = [pc EXCEPT ![Daily] = "done"]
  /\ UNCHANGED <<store, nextId, clock, monitored, upstream, pair, start, results, calls,
                 pos, new_articles, ret, reported, recent, again,
                 creds, smtp, due, seen, probe>>

\* The handler returns: its locals are gone and the thread is idle again.
Finish(p) ==
  /\ pc[p] = "done"
  /\ pc' = [pc EXCEPT ![p] = "idle"]
  /\ new_articles' = [new_articles EXCEPT ![p] = << >>]
  /\ failed' = [failed EXCEPT ![p] = FALSE]
  /\ cause' = [cause EXCEPT ![p] = "none"]
  /\ ret' = [ret EXCEPT ![p] = << >>]
  /\ reported' = [reported EXCEPT ![p] = 0]
  /\ recent' = [recent EXCEPT ![p] = << >>]
  /\ mailed' = [mailed EXCEPT ![p] = << >>]
  /\ again' = [again EXCEPT ![p] = TRUE]
  /\ UNCHANGED <<store, nextId, clock, monitored, upstream, pair, start, results, calls,
                 pos, creds, smtp, due, seen, probe>>

\* ----------------------------------------------------------------- the clock
Advance(hours) ==
  /\ clock + hours <= MaxTime
  /\ clock' = clock + hours
  /\ UNCHANGED <<store, nextId, monitored, upstream, pc, pair, start, results, calls,
                 pos, new_articles, failed, cause, ret, reported, recent, mailed, again,
                 creds, smtp, due, seen, probe>>

Tick == Advance(TickHours)

\* ------------------------------------------------------------ specifications
EmptyFeed == MkFeed(<< >>, NoItems)

InitLocals ==
  /\ pc = [p \in Procs |-> "idle"]
  /\ pair = [p \in Procs |-> 1]
  /\ start = [p \in Procs |-> 1]
  /\ results = [p \in Procs |-> << >>]
  /\ calls = [p \in Procs |-> << >>]
  /\ pos = [p \in Procs |-> 1]
  /\ new_articles = [p \in Procs |-> << >>]
  /\ failed = [p \in Procs |-> FALSE]
  /\ cause = [p \in Procs |-> "none"]
  /\ ret = [p \in Procs |-> << >>]
  /\ reported = [p \in Procs |-> 0]
  /\ recent = [p \in Procs |-> << >>]
  /\ mailed = [p \in Procs |-> << >>]
  /\ again = [p \in Procs |-> FALSE]

\* No url has been handed to the classification functions.
NoProbe == [netloc |-> << >>, newspaper |-> "", language |-> ""]

\* The environment of the specifications that are not about it: mail is
\* configured and the transport works, the cron trigger is due at once.
InitMail ==
  /\ creds = Configured
  /\ smtp = "up"

InitSchedule ==
  /\ due = 0
  /\ seen = {}

InitEnv ==
  /\ InitMail
  /\ InitSchedule
  /\ probe = NoProbe

\* The scheduler fires daily_job; a POST /run-scan arrives.
StartDaily == StartScan(Daily)

StartManual == \E p \in Manuals : StartScan(p)

ScanStep(p) ==
  \/ ItemsDone(p)
  \/ SkipNoLink(p)
  \/ ProcessItem(p)
  \/ Commit(p)
  \/ MailImmediate(p)
  \/ Flash(p)
  \/ Finish(p)

\* Spec: two threads scanning one monitored domain, the search API answering
\* anything from ScanResponses, the store failing at any statement.
ScanResponses ==
  { Raise, NoItems, Page(<<ItemA>>), Page(<<ItemC, ItemB>>), Page(<<ItemD>>) }

Init ==
  /\ store = {}
  /\ nextId = 1
  /\ clock = 0
  /\ monitored \in {{"ft.lk"}, {"lankadeepa.lk"}}
  /\ upstream = << >>
  /\ InitLocals
  /\ InitEnv

RequestAny == \E p \in Procs : \E resp \in ScanResponses : Request(p, resp)

Next ==
  \/ StartDaily
  \/ StartManual
  \/ RequestAny
  \/ \E p \in Procs : ScanStep(p)
  \/ \E p \in Procs : DbFail(p)
  \/ DailyWindow
  \/ DailyNotify

Spec == Init /\ [][Next]_vars

\* The search API answers what the fixed upstream holds for the pair.
RequestFixed(p) == Request(p, RespondAt(upstream[pair[p]], start[p]))

AllDomains == {"ft.lk", "lankadeepa.lk"}

\* SpecTwice: one request thread scanning again and again, the upstream
\* fixed, the store never failing.
TwiceFeeds ==
  { EmptyFeed, MkFeed(<<Page(<<ItemA>>)>>, NoItems),
    MkFeed(<<Page(<<ItemC, ItemB>>)>>, NoItems),
    MkFeed(<<Page(<<ItemE, ItemF>>)>>, NoItems), MkFeed(<<Page(<<ItemD>>)>>, NoItems),
    MkFeed(<<Raise>>, NoItems) }

InitTwice ==
  /\ store = {}
  /\ nextId = 1
  /\ clock = 0
  /\ monitored = AllDomains
  /\ upstream \in [1..NPairs -> TwiceFeeds]
  /\ InitLocals
  /\ InitEnv

NextTwice ==
  \/ StartManual
  \/ \E p \in Manuals : RequestFixed(p)
  \/ \E p \in Manuals : ScanStep(p)

SpecTwice == InitTwice /\ [][NextTwice]_vars

\* SpecSearch: google_search against a fixed sequence of pages.
SearchSizes == {-1, 0, 7, PageSize}

\* Page k of the given size, its items told apart by their titles.
SearchPage(k, n) ==
  IF n < 0 THEN NoItems ELSE Page([i \in 1..n |-> MkItem(U1, "time", 100 * k + i)])

SearchFeeds ==
  UNION { { MkFeed([k \in 1..n |-> SearchPage(k, sz[k])], NoItems) :
              sz \in [1..n -> SearchSizes] } : n \in 1..3 }

InitSearch ==
  /\ store = {}
  /\ nextId = 1
  /\ clock = 0
  /\ monitored = {"ft.lk"}
  /\ \E f \in SearchFeeds : upstream = <<f, EmptyFeed>>
  /\ InitLocals
  /\ InitEnv

NextSearch ==
  \/ StartManual
  \/ \E p \in Manuals : RequestFixed(p)

SpecSearch == InitSearch /\ [][NextSearch]_vars

\* SpecWindow: daily_job at T = WindowNow over a store filled by earlier
\* scans, the upstream offering nothing.
WindowNow == 30

\* Creation times around both ends of the window.
WindowTimes ==
  {WindowNow - 30, WindowNow - 25, WindowNow - Day, WindowNow - 23,
   WindowNow - 1, WindowNow}

WindowUrls == <<U1, U2, U3>>

WindowRow(i, t) ==
  [MkArticle(MkItem(WindowUrls[i], "notime", i),
             IF get_language(Netloc(WindowUrls[i])) = "Sinhala"
             THEN SINHALA_QUERIES[1] ELSE ENGLISH_QUERIES[1])
     EXCEPT !.id = i, !.created_at = t]

InitWindow ==
  /\ \E S \in SUBSET (1..Len(WindowUrls)) : \E t \in [S -> WindowTimes] :
        store = {WindowRow(i, t[i]) : i \in S}
  /\ nextId = Len(WindowUrls) + 1
  /\ clock = WindowNow
  /\ monitored = {"ft.lk"}
  /\ upstream = [k \in 1..NPairs |-> EmptyFeed]
  /\ InitLocals
  /\ InitEnv

NextWindow ==
  \/ StartDaily
  \/ RequestFixed(Daily)
  \/ ItemsDone(Daily)
  \/ Commit(Daily)
  \/ DailyWindow
  \/ DailyNotify
  \/ Finish(Daily)

SpecWindow == InitWindow /\ [][NextWindow]_vars

\* FairSpec: the scheduler thread alone, running daily_job whenever it is
\* due, against a fixed upstream; the thread is never starved.
EndlessFeed == MkFeed(<< >>, FullPage(ItemA))

FairFeeds ==
  { EmptyFeed, MkFeed(<<Page(<<ItemA>>)>>, NoItems),
    MkFeed(<<Page(<<ItemC, ItemB>>)>>, NoItems),
    MkFeed(<<FullPage(ItemA), Page(<<ItemB>>)>>, NoItems), EndlessFeed }

InitFair ==
  /\ store = {}
  /\ nextId = 1
  /\ clock = 0
  /\ monitored = AllDomains
  /\ upstream \in [1..NPairs -> FairFeeds]
  /\ InitLocals
  /\ InitEnv

NextFair ==
  \/ StartDaily
  \/ RequestFixed(Daily)
  \/ ItemsDone(Daily)
  \/ SkipNoLink(Daily)
  \/ ProcessItem(Daily)
  \/ Commit(Daily)
  \/ DailyWindow
  \/ DailyNotify
  \/ Finish(Daily)

FairSpec == InitFair /\ [][NextFair]_vars /\ WF_vars(NextFair)

\* ClockSpec: both threads and the clock; the search API answers anything
\* from ClockResponses.
ClockResponses == { Raise, NoItems, Page(<<ItemA>>), Page(<<ItemC, ItemB>>) }

InitClock ==
  /\ store = {}
  /\ nextId = 1
  /\ clock = 0
  /\ monitored = {"ft.lk"}
  /\ upstream = << >>
  /\ InitLocals
  /\ InitEnv

RequestClock == \E p \in Procs : \E resp \in ClockResponses : Request(p, resp)

NextClock ==
  \/ StartDaily
  \/ StartManual
  \/ RequestClock
  \/ \E p \in Procs : ScanStep(p)
  \/ DailyWindow
  \/ DailyNotify
  \/ Tick

ClockSpec == InitClock /\ [][NextClock]_vars

\* SpecMail: both threads against a fixed upstream; the credentials are set
\* or not, and the mail transport goes up and down at any time.
MailFeeds ==
  { EmptyFeed, MkFeed(<<Page(<<ItemA>>)>>, NoItems),
    MkFeed(<<Page(<<ItemC, ItemB>>)>>, NoItems), MkFeed(<<Raise>>, NoItems) }

\* smtplib.SMTP_SSL / login / send_message start or stop raising.
TransportFlips ==
  /\ smtp' = IF smtp = "up" THEN "down" ELSE "up"
  /\ UNCHANGED <<store, nextId, clock, monitored, upstream, pc, pair, start, results,
                 calls, pos, new_articles, failed, cause, ret, reported, recent, mailed,
                 again, creds, due, seen, probe>>

InitMailAny ==
  /\ store = {}
  /\ nextId = 1
  /\ clock = 0
  /\ monitored = {"ft.lk"}
  /\ upstream \in [1..NPairs -> MailFeeds]
  /\ InitLocals
  /\ creds \in [user : BOOLEAN, pass : BOOLEAN]
  /\ smtp \in {"up", "down"}
  /\ InitSchedule
  /\ probe = NoProbe

NextMail ==
  \/ StartDaily
  \/ StartManual
  \/ \E p \in Procs : RequestFixed(p)
  \/ \E p \in Procs : ScanStep(p)
  \/ DailyWindow
  \/ DailyNotify
  \/ TransportFlips

SpecMail == InitMailAny /\ [][NextMail]_vars

\* SpecClassify: get_newspaper_name and get_language applied to a url whose
\* netloc is put together from up to three of the Pieces.
Pieces ==
  { Www, Spelled["ft.lk"], Spelled["island.lk"], Spelled["ada.lk"],
    Spelled["lankadeepa.lk"], <<"f">>, <<"t", ".", "l", "k">>, <<"a">>,
    <<"d", "a", ".", "l", "k">>, <<"n", "e", "w", "s", ".">>, <<"c", "a", "n">>,
    <<".">>, <<"e", "x", ".", "c", "o", "m">> }

Netlocs ==
  Pieces \cup {a \o b : a, b \in Pieces} \cup {a \o b \o c : a, b, c \in Pieces}

InitClassify ==
  /\ store = {}
  /\ nextId = 1
  /\ clock = 0
  /\ monitored = {"ft.lk"}
  /\ upstream = << >>
  /\ InitLocals
  /\ InitMail
  /\ InitSchedule
  /\ \E h \in Netlocs : probe = [NoProbe EXCEPT !.netloc = h]

\* newspaper=get_newspaper_name(url), language=get_language(url)
Classify ==
  /\ probe.newspaper = ""
  /\ probe.netloc # << >>
  /\ probe' = [probe EXCEPT !.newspaper = get_newspaper_name(probe.netloc),
                            !.language = get_language(probe.netloc)]
  /\ UNCHANGED <<store, nextId, clock, monitored, upstream, pc, pair, start, results,
                 calls, pos, new_articles, failed, cause, ret, reported, recent, mailed,
                 again, creds, smtp, due, seen>>

NextClassify == Classify

SpecClassify == InitClassify /\ [][NextClassify]_vars

\* SpecNotify: send_email called with any list of records and any subject,
\* the credentials set or not, the transport up or down.
NotifyRecords ==
  { << >>, <<WindowRow(1, 0)>>, <<WindowRow(2, 0), WindowRow(1, 0)>> }

Subjects == {"Manual Trigger", "Daily Report (Last 24 hours)"}

\* send_email(articles, subject)
SendEmailCall(p) ==
  /\ pc[p] = "idle"
  /\ Len(mailed[p]) < MaxCalls
  /\ \E articles \in NotifyRecords : \E subject \in Subjects :
       LET call == SendEmail(articles, subject)
       IN  /\ mailed' = [mailed EXCEPT ![p] = Append(@, call)]
           /\ failed' = [failed EXCEPT ![p] = Propagates(call.delivery)]
           /\ cause' = [cause EXCEPT ![p] =
                          IF Propagates(call.delivery) THEN "mail" ELSE @]
  /\ UNCHANGED <<store, nextId, clock, monitored, upstream, pc, pair, start, results,
                 calls, pos, new_articles, ret, reported, recent, again,
                 creds, smtp, due, seen, probe>>

InitNotify ==
  /\ store = {}
  /\ nextId = 1
  /\ clock = 0
  /\ monitored = {"ft.lk"}
  /\ upstream = << >>
  /\ InitLocals
  /\ creds \in [user : BOOLEAN, pass : BOOLEAN]
  /\ smtp \in {"up", "down"}
  /\ InitSchedule
  /\ probe = NoProbe

NextNotify ==
  \/ \E p \in Manuals : SendEmailCall(p)
  \/ TransportFlips

SpecNotify == InitNotify /\ [][NextNotify]_vars

\* SpecDup: one manual scan of two domains over an empty store, the fixed
\* upstream offering the same urls again and again: twice on a page, on two
\* pages, for two queries, for two domains.
DupFeeds ==
  { EmptyFeed, MkFeed(<<Page(<<ItemA>>)>>, NoItems),
    MkFeed(<<Page(<<ItemB, ItemC, ItemE, ItemB>>)>>, NoItems),
    MkFeed(<<FullPage(ItemA), Page(<<ItemE, ItemF>>)>>, NoItems) }

InitDup ==
  /\ store = {}
  /\ nextId = 1
  /\ clock = 0
  /\ monitored = AllDomains
  /\ upstream \in [1..NPairs -> DupFeeds]
  /\ InitLocals
  /\ InitEnv

NextDup ==
  \/ StartManual
  \/ \E p \in Manuals : RequestFixed(p)
  \/ \E p \in Manuals : ScanStep(p)

SpecDup == InitDup /\ [][NextDup]_vars

\* SpecSchedule: the cron trigger fires daily_job every Day hours, every
\* run of it is over before the next is due, manual scans come at any time
\* and take no time; the rows that window queries return are recorded.
ScheduleResponses == { NoItems, Page(<<ItemA>>), Page(<<ItemC, ItemB>>) }

\* scheduler.add_job(daily_job, "cron", hour=10, minute=0)
StartScheduled ==
  /\ clock = due
  /\ pc[Daily] = "idle"
  /\ pc' = [pc EXCEPT ![Daily] = "search"]
  /\ due' = due + Day
  /\ UNCHANGED <<store, nextId, clock, monitored, upstream, pair, start, results, calls,
                 pos, new_articles, failed, cause, ret, reported, recent, mailed, again,
                 creds, smtp, seen, probe>>

ScheduledWindow == WindowStep(TRUE)

\* Time passes, but not past a fire time of the trigger, not up to it
\* while daily_job is running, and not during a manual scan.
ScheduledTick ==
  /\ clock + ScheduleHours <= due
  /\ pc[Daily] # "idle" => clock + ScheduleHours < due
  /\ \A p \in Manuals : pc[p] = "idle"
  /\ Advance(ScheduleHours)

RequestSchedule ==
  \E p \in Procs : \E resp \in ScheduleResponses : Request(p, resp)

NextSchedule ==
  \/ StartScheduled
  \/ StartManual
  \/ RequestSchedule
  \/ \E p \in Procs : ScanStep(p)
  \/ ScheduledWindow
  \/ DailyNotify
  \/ ScheduledTick

SpecSchedule == InitClock /\ [][NextSchedule]_vars

\* ------------------------------------------------------------------ claims
PastScan == {"mail", "flash", "window", "notify", "done"}

Stepped(p) == pc'[p] # pc[p] \/ pos'[p] # pos[p]

AtStoredUrl(p) ==
  /\ pc[p] = "items"
  /\ pos[p] <= Len(results[p])
  /\ results[p][pos[p]].link \in Urls(store)

UniqueUrls == \A r1, r2 \in store : r1.url = r2.url => r1 = r2

\* C1: no two rows of the store have the same url, in every reachable state
\* of every interleaving of scans; and the step of a scan over an item whose
\* url is stored adds nothing to the scan's batch and leaves the store as
\* it is.
C1_UniqueUrl ==
  /\ []UniqueUrls
  /\ [][\A p \in Procs :
          (AtStoredUrl(p) /\ Stepped(p)) =>
            /\ Len(new_articles'[p]) = Len(new_articles[p])
            /\ store' = store]_vars

\* C1 witness: a scan has gone past an item whose url another scan stored,
\* and has not taken it into its batch.
C1_Witness ==
  \E p \in Procs :
    /\ pc[p] = "items"
    /\ pos[p] > 1
    /\ results[p][pos[p] - 1].link \in Urls(store)
    /\ results[p][pos[p] - 1].link \notin Urls(Range(new_articles[p]))

CommitStepOf(p) ==
  /\ pc[p] = "commit"
  /\ pc'[p] \in {"mail", AfterScan(p)}
  /\ ~failed'[p]
  /\ store' = store \cup Range(new_articles'[p])

\* C3: the store changes only at the commit of a scan, which adds the whole
\* batch of that scan in one step; while a scan runs, and after it failed,
\* none of its records is in the store, and after its commit all of them are.
C3_AtomicBatch ==
  /\ [][store' # store => \E p \in Procs : CommitStepOf(p)]_vars
  /\ [](\A p \in Procs :
          /\ (InTxn(p) \/ failed[p]) => Range(new_articles[p]) \cap store = {}
          /\ (pc[p] \in PastScan /\ ~failed[p]) => Range(new_articles[p]) \subseteq store)

\* C3 witness: a scan that had inserted a row failed, and the store, which
\* holds the rows of another scan, holds none of its rows.
C3_Witness ==
  \E p \in Procs :
    /\ failed[p]
    /\ \E a \in Range(new_articles[p]) : a.id # None
    /\ store # {}

\* C4: run_scan_and_save returns the committed batch, and the empty list
\* whenever the scan failed and was rolled back; the manual trigger then
\* reports zero new records.
C4_EmptyOnFailure ==
  \A p \in Procs :
    /\ (pc[p] \in {"flash", "window", "notify", "done"} /\ failed[p]) => ret[p] = << >>
    /\ (pc[p] = "done" /\ failed[p] /\ p \in Manuals) => reported[p] = 0

\* C5: a failure of the search API for one (query, site) never aborts the
\* scan: the scan goes on with the remaining pairs.
C5_UpstreamFailureNonFatal ==
  \A p \in Procs : cause[p] = "upstream" => ~failed[p]

\* C6: a malformed item never aborts the batch: whatever the shape of its
\* pagemap, the scan goes on.
C6_MalformedItemNonFatal ==
  \A p \in Procs : cause[p] = "item" => ~failed[p]

\* Page k of a feed, and whether google_search stops after it.
PageK(f, k) == IF k <= Len(f.pages) THEN f.pages[k] ELSE f.tail

Stops(f, k) == PageK(f, k).kind # "page" \/ Len(PageK(f, k).items) < 10

LastCall(f) ==
  CHOOSE k \in 1..(Len(f.pages) + 1) : Stops(f, k) /\ \A j \in 1..(k - 1) : ~Stops(f, j)

Offsets(n) == [i \in 1..n |-> 10 * (i - 1) + 1]

RECURSIVE Concat(_, _)
Concat(f, k) == IF k = 0 THEN << >> ELSE Concat(f, k - 1) \o PageK(f, k).items

PageSizes(f) == [k \in 1..Len(f.pages) |-> Len(f.pages[k].items)]

\* C7: google_search requests the start offsets 1, 11, 21, ... in order,
\* requests nothing after the first page without items or with fewer than 10
\* items, and returns the concatenation of the pages it received: pages of
\* sizes 10, 10, 7 give 27 items after the calls 1, 11, 21, and a first page
\* without items gives the empty list after one call.
C7_Pagination ==
  \A p \in Manuals :
    LET f == upstream[pair[p]]
    IN  /\ pc[p] = "search" =>
             /\ Len(calls[p]) < LastCall(f)
             /\ calls[p] = Offsets(Len(calls[p]))
             /\ results[p] = Concat(f, Len(calls[p]))
        /\ pc[p] = "items" =>
             /\ calls[p] = Offsets(LastCall(f))
             /\ results[p] = Concat(f, LastCall(f))
        /\ (pc[p] = "items" /\ PageSizes(f) = <<10, 10, 7>>) =>
             /\ Len(results[p]) = 27
             /\ calls[p] = <<1, 11, 21>>
        /\ (pc[p] = "items" /\ f.pages[1] = NoItems) =>
             /\ results[p] = << >>
             /\ calls[p] = <<1>>

\* C7 witness: google_search has returned 27 items after three requests.
C7_Witness ==
  \E p \in Manuals :
    /\ pc[p] = "items"
    /\ Len(results[p]) = 27
    /\ calls[p] = <<1, 11, 21>>
    /\ results[p][27].title = 307

CreatedAts(s) == [i \in 1..Len(s) |-> s[i].created_at]

\* C8: the window query of the daily job returns exactly the stored rows
\* created in the 24 hours that end at the query time, both ends included,
\* each once, the most recent first: with rows created at T-30h, T-23h and
\* T-1h it returns the T-1h row and then the T-23h row.
C8_Window ==
  pc[Daily] \in {"notify", "done"} =>
    /\ \A r \in store :
         r \in Range(recent[Daily]) <=> (clock - r.created_at) \in 0..24
    /\ Range(recent[Daily]) \subseteq store
    /\ Cardinality(Range(recent[Daily])) = Len(recent[Daily])
    /\ \A i \in 1..(Len(recent[Daily]) - 1) :
         recent[Daily][i].created_at >= recent[Daily][i + 1].created_at
    /\ {r.created_at : r \in store} = {WindowNow - 30, WindowNow - 23, WindowNow - 1}
         => CreatedAts(recent[Daily]) = <<WindowNow - 1, WindowNow - 23>>

\* C8 witness: the query has run over rows created at T-30h, T-23h and T-1h.
C8_Witness ==
  /\ pc[Daily] = "notify"
  /\ {r.created_at : r \in store} = {WindowNow - 30, WindowNow - 23, WindowNow - 1}
  /\ CreatedAts(recent[Daily]) = <<WindowNow - 1, WindowNow - 23>>

DailyReport(rows) == [subject |-> "Daily Report (Last 24 hours)", articles |-> rows]

\* The calls of send_email in a log, without what came of them.
Calls(log) ==
  [i \in 1..Len(log) |-> [subject |-> log[i].subject, articles |-> log[i].articles]]

\* C10: in a run of the daily job nothing is mailed during the scan nor
\* before the window query is done, even when the scan inserted records;
\* the run mails at most once, exactly when the window result is not empty,
\* and what it mails is the window result.
C10_DailyNotifier ==
  /\ pc[Daily] \in {"search", "items", "commit", "mail", "window", "notify"}
       => mailed[Daily] = << >>
  /\ pc[Daily] = "done"
       => Calls(mailed[Daily]) =
            IF recent[Daily] = << >> THEN << >> ELSE <<DailyReport(recent[Daily])>>
  /\ pc[Daily] # "mail"

\* C10 witness: a daily run whose scan inserted a record has mailed a window
\* result that is not the batch of its scan.
C10_Witness ==
  /\ pc[Daily] = "done"
  /\ ~failed[Daily]
  /\ ret[Daily] # << >>
  /\ Len(mailed[Daily]) = 1
  /\ mailed[Daily][1].articles # ret[Daily]

\* C10 witness of the other case: a daily run whose scan inserted nothing
\* and whose window is empty over a store that is not has mailed nothing.
C10_WitnessSilent ==
  /\ pc[Daily] = "done"
  /\ store # {}
  /\ recent[Daily] = << >>
  /\ mailed[Daily] = << >>

\* C2: a scan that follows another scan of the same caller, the upstream
\* unchanged and no other scan in between, returns the empty list and
\* inserts nothing.
C2_SecondScanEmpty ==
  /\ [](\A p \in Manuals :
          (again[p] /\ pc[p] \in {"flash", "done"}) => ret[p] = << >>)
  /\ [][(\E p \in Manuals : again[p]) => store' = store]_vars

ManualReport(rows) == [subject |-> "Manual Trigger", articles |-> rows]

\* C11: a manual trigger calls the notifier exactly when its scan committed
\* at least one new record, never before the commit, once, and with exactly
\* the rows that commit added to the store: the rows the store gained in
\* the commit step, all of them in the store when the call is made.
C11_ManualNotifier ==
  /\ [](\A p \in Manuals :
          /\ pc[p] \in {"search", "items", "commit"} => mailed[p] = << >>
          /\ pc[p] = "mail" => /\ mailed[p] = << >>
                               /\ new_articles[p] # << >>
                               /\ Range(new_articles[p]) \subseteq store
          /\ pc[p] \in {"flash", "done"} =>
                Calls(mailed[p]) =
                  IF ~failed[p] /\ new_articles[p] # << >>
                  THEN <<ManualReport(new_articles[p])>> ELSE << >>)
  /\ [][\A p \in Manuals :
          (pc[p] = "commit" /\ pc'[p] # "commit" /\ ~failed'[p]) =>
             /\ Range(new_articles'[p]) = store' \ store
             /\ Len(new_articles'[p]) = Cardinality(store' \ store)]_vars

\* C11 witness: a manual trigger has mailed its batch, the store holding a
\* record of another scan as well.
C11_Witness ==
  \E p \in Manuals :
    /\ pc[p] = "flash"
    /\ Calls(mailed[p]) = <<ManualReport(new_articles[p])>>
    /\ Range(new_articles[p]) \subseteq store
    /\ Range(new_articles[p]) # store

\* C12: what comes of a call of send_email (delivered, failed in the
\* transport, skipped without credentials) changes nothing else: the step
\* that makes the call leaves the store, the batch and the failure status
\* as they were, returns the batch of the scan and goes on to the same
\* place whatever the delivery, and no failure of the mail reaches the
\* caller.
C12_MailOutcomeIrrelevant ==
  /\ [](\A p \in Procs : cause[p] # "mail")
  /\ [][\A p \in Procs :
          mailed'[p] # mailed[p] /\ mailed[p] = << >> =>
             /\ store' = store
             /\ new_articles' = new_articles
             /\ failed' = failed
             /\ p \in Manuals => ret'[p] = new_articles[p] /\ pc'[p] = "flash"
             /\ p = Daily => ret' = ret /\ pc'[p] = "done"]_vars

\* C12 witness: a manual trigger whose mail failed in the transport has
\* returned its committed batch.
C12_Witness ==
  \E p \in Manuals :
    /\ pc[p] = "flash"
    /\ ~failed[p]
    /\ Len(mailed[p]) = 1
    /\ mailed[p][1].delivery = "error"
    /\ ret[p] # << >>
    /\ Range(ret[p]) \subseteq store

\* C13: no two executions of run_scan_and_save are in progress at the same
\* time.
C13_ScansSerialized ==
  \A p, q \in Procs : (InTxn(p) /\ InTxn(q)) => p = q

\* The host of a url: its netloc without a leading "www.".
Host(netloc) == DomainOfLeadingOnly(netloc)

\* The keys of NEWS_MAP found in a host, by their place in the mapping.
KeysIn(h) == {i \in 1..Len(NEWS_MAP) : In(Spelled[NEWS_MAP[i][1]], h)}

\* C17: the newspaper of a url is the display name of the first key of
\* NEWS_MAP, in declaration order, that its host contains, so the name of D
\* whenever the host contains D and no earlier key, and it is "Unknown"
\* exactly when the host contains no key.
C17_NewspaperName ==
  probe.newspaper # "" =>
    LET hits == KeysIn(Host(probe.netloc))
    IN  probe.newspaper =
          IF hits = {} THEN "Unknown"
          ELSE NEWS_MAP[CHOOSE i \in hits : \A j \in hits : i <= j][2]

\* t ends s.
EndsWith(t, s) == Len(t) <= Len(s) /\ OccursAt(t, s, Len(s) - Len(t) + 1)

\* The host is the monitored domain or a subdomain of it.
OnDomain(h, d) == h = Spelled[d] \/ EndsWith(<<".">> \o Spelled[d], h)

\* C18: the language of a url is "English" or "Sinhala", "Sinhala" exactly
\* when its host contains a Sinhala domain; for a url on a monitored domain
\* it is the language of the queries the scan uses for that domain.
C18_Language ==
  probe.language # "" =>
    /\ probe.language \in {"English", "Sinhala"}
    /\ probe.language = "Sinhala" <=>
         \E i \in 1..Len(SINHALA_DOMAINS) :
            In(Spelled[SINHALA_DOMAINS[i]], Host(probe.netloc))
    /\ \A i \in 1..Len(NewsKeys) :
         OnDomain(Host(probe.netloc), NewsKeys[i]) =>
           (probe.language = "Sinhala" <=> QueriesFor(NewsKeys[i]) = SINHALA_QUERIES)

\* C14: a row of the store is in the store, with every one of its columns
\* as it was, after every step: of a scan, a failed scan and its rollback,
\* a window query, a notification.
C14_RecordsImmutable == [][\A r \in store : r \in store']_vars

\* C14 witness: a stored row has outlived the rollback of a scan that tried
\* to insert its url again.
C14_Witness ==
  \E p \in Procs :
    /\ failed[p]
    /\ cause[p] = "integrity"
    /\ \E r \in store : r.url \in Urls(Range(new_articles[p]))

\* C15: google_search never issues more than 10 requests and never holds
\* more than 100 results.
C15_AtMostHundred ==
  \A p \in Procs : Len(calls[p]) <= 10 /\ Len(results[p]) <= 100

\* C16: a call of send_email with no records, or with EMAIL_USER or
\* EMAIL_PASS not set, or both, opens no connection to the mail transport
\* and raises nothing.
C16_SilentNotifier ==
  \A p \in Procs :
    /\ cause[p] # "mail"
    /\ \A i \in 1..Len(mailed[p]) :
         (mailed[p][i].articles = << >> \/ ~creds.user \/ ~creds.pass)
           => mailed[p][i].delivery \notin Network

\* C16 witness: without the password, send_email has been called with no
\* records and then with some.
C16_Witness ==
  \E p \in Procs :
    /\ creds.user /\ ~creds.pass
    /\ Len(mailed[p]) = 2
    /\ mailed[p][1].articles = << >>
    /\ mailed[p][2].articles # << >>

\* The urls a feed offers, over all its pages.
FeedLinks(f) ==
  UNION {{f.pages[k].items[i].link : i \in 1..Len(f.pages[k].items)} :
           k \in 1..Len(f.pages)} \ {NoLink}

\* The pairs of the sweep, by their place, whose feed offers the url.
Offering(url) == {k \in 1..NPairs : url \in FeedLinks(upstream[k])}

\* C19: a scan over an empty store that is offered a url several times
\* (on one page, on two pages, by two queries, for two domains) does not
\* fail, and its batch, which is committed, holds each offered url exactly
\* once, under the first query of the sweep that offered it.
C19_RepeatedUrlOnce ==
  \A p \in Manuals :
    (~again[p] /\ pc[p] \in {"flash", "done"}) =>
      /\ ~failed[p]
      /\ Range(ret[p]) = store
      /\ Urls(store) = UNION {FeedLinks(upstream[k]) : k \in 1..NPairs}
      /\ Cardinality(Urls(store)) = Len(ret[p])
      /\ \A a \in store :
           a.query_used =
             Sweep[CHOOSE k \in Offering(a.url) : \A j \in Offering(a.url) : k <= j].query

\* C19 witness: a scan has returned two records after one url came on two
\* pages of the first query and again for the second query and for the
\* other domain.
C19_Witness ==
  \E p \in Manuals :
    /\ ~again[p]
    /\ pc[p] = "flash"
    /\ Len(ret[p]) = 2
    /\ Len(upstream[1].pages) = 2
    /\ Offering(U1) = 1..NPairs

\* C20: with daily_job fired every 24 hours and every scan shorter than
\* that, no stored row is left out of every digest: a row too old for the
\* window of any query still to come has been returned by a window query.
C20_EveryRecordDigested ==
  \A r \in store : r.created_at < clock - Day => r.id \in seen
====
